---------------------------- MODULE Spec2Model ----------------------------
(***************************************************************************)
(* Model of generate.py (tanelneemoja/feed-creek): the render cache, the   *)
(* compositor's control flow, the worker pool of one catalog run and the   *)
(* orphan reconciliation of the output directory.                          *)
(*                                                                         *)
(* Strings of the program are TLA+ strings (TLC evaluates Len, \o and      *)
(* SubSeq on them), so file names, the glob pattern and the hashed data    *)
(* string are computed character by character as the code computes them.   *)
(* SHA-1 itself is replaced by a 32-bit stand-in digest that is rendered   *)
(* as 8 hexadecimal characters, the width the code keeps ([:8]).           *)
(***************************************************************************)
EXTENDS Integers, Sequences, FiniteSets, TLC

(***************************************************************************)
(* Bounds of the model.                                                    *)
(***************************************************************************)
MaxItems == 2      \* longest catalog (number of <item> records)
MaxRuns == 2       \* runs of process_all_feeds in the template-change specification
MaxWorkers == 2    \* size of the worker pool (16 in the code)
MaxFeeds == 2      \* country feeds of one run of process_all_feeds (4 in the code)

(***************************************************************************)
(* Program constants.                                                      *)
(***************************************************************************)
NumSlots == 3
MAX_PRODUCTS_TO_GENERATE == 5000
OUTPUT_DIR == "generated_ads"
GITHUB_PAGES_BASE_URL == "https://tanelneemoja.github.io/feed-creek/generated_ads"
NORMAL_PRICE_COLOR == "#0055FF"
SALE_PRICE_COLOR == "#cc02d2"

(***************************************************************************)
(* String helpers.                                                         *)
(***************************************************************************)
Char(s, i) == SubSeq(s, i, i)

StartsWith(s, p) == Len(s) >= Len(p) /\ SubSeq(s, 1, Len(p)) = p

EndsWith(s, p) == Len(s) >= Len(p) /\ SubSeq(s, Len(s) - Len(p) + 1, Len(s)) = p

\* str.strip(): drop leading and trailing blanks
LStrip(s) ==
    LET blanks == Cardinality({i \in 1..Len(s) : \A j \in 1..i : Char(s, j) = " "})
    IN  SubSeq(s, blanks + 1, Len(s))

RStrip(s) ==
    LET blanks == Cardinality({i \in 1..Len(s) : \A j \in i..Len(s) : Char(s, j) = " "})
    IN  SubSeq(s, 1, Len(s) - blanks)

Strip(s) == RStrip(LStrip(s))

\* "|".join(parts)
RECURSIVE JoinPipe(_)
JoinPipe(parts) ==
    IF Len(parts) = 0 THEN ""
    ELSE IF Len(parts) = 1 THEN parts[1]
    ELSE parts[1] \o "|" \o JoinPipe(Tail(parts))

\* str(list_of_str), the Python list display
RECURSIVE StrListBody(_)
StrListBody(l) ==
    IF Len(l) = 0 THEN ""
    ELSE IF Len(l) = 1 THEN "'" \o l[1] \o "'"
    ELSE "'" \o l[1] \o "', " \o StrListBody(Tail(l))

StrList(l) == "[" \o StrListBody(l) \o "]"

\* list[:n]
Take(l, n) == SubSeq(l, 1, IF Len(l) < n THEN Len(l) ELSE n)

(***************************************************************************)
(* hashlib.sha1(data).hexdigest()[:8]: a 32-bit digest printed as 8 hex    *)
(* characters.  The stand-in computes two 16-bit polynomial digests over   *)
(* the characters of the data string.                                      *)
(***************************************************************************)
Alphabet == " #'(),-./0123456789:ABCDEFGHIJKLMNOPQRSTUVWXYZ[]_abcdefghijklmnopqrstuvwxyz|"

CharCode(c) ==
    IF \E i \in 1..Len(Alphabet) : Char(Alphabet, i) = c
    THEN CHOOSE i \in 1..Len(Alphabet) : Char(Alphabet, i) = c
    ELSE 0

\* a * b modulo 2^16 without leaving 32-bit integers
MulMod(a, b) == ((((a * (b \div 256)) % 65536) * 256) + a * (b % 256)) % 65536

RECURSIVE PowMod(_, _)
PowMod(m, e) ==
    IF e = 0 THEN 1
    ELSE IF e % 2 = 1 THEN MulMod(m, PowMod(m, e - 1))
    ELSE MulMod(PowMod(m, e \div 2), PowMod(m, e \div 2))

\* the polynomial in mult whose coefficients are the characters lo..hi of s
RECURSIVE PolyRange(_, _, _, _)
PolyRange(s, lo, hi, mult) ==
    IF lo > hi THEN 0
    ELSE IF lo = hi THEN CharCode(Char(s, lo)) + 1
    ELSE (MulMod(PolyRange(s, lo, (lo + hi) \div 2, mult), PowMod(mult, hi - (lo + hi) \div 2))
            + PolyRange(s, (lo + hi) \div 2 + 1, hi, mult)) % 65536

\* the digest of the characters of s, started from seed
PolyDigest(s, mult, seed) ==
    (MulMod(seed, PowMod(mult, Len(s))) + PolyRange(s, 1, Len(s), mult)) % 65536

HexDigits == "0123456789abcdef"

HexDigit(n) == Char(HexDigits, n + 1)

Hex4(n) == HexDigit((n \div 4096) % 16) \o HexDigit((n \div 256) % 16)
              \o HexDigit((n \div 16) % 16) \o HexDigit(n % 16)

Sha1Hex8(data) == Hex4(PolyDigest(data, 131, 7)) \o Hex4(PolyDigest(data, 257, 11))

(***************************************************************************)
(* XML elements of an <item>: an element is absent, or present with text.  *)
(* Price elements of the modelled catalogs always carry text.              *)
(***************************************************************************)
NoElem == [present |-> FALSE, text |-> ""]

Elem(t) == [present |-> TRUE, text |-> t]

(***************************************************************************)
(* format_price (nested in process_single_feed).                           *)
(***************************************************************************)
EuroSign == "(euro)"

\* text.split()[0]
UpToBlank(s) ==
    LET n == Cardinality({i \in 1..Len(s) : \A j \in 1..i : Char(s, j) # " "})
    IN  SubSeq(s, 1, n)

FirstToken(s) == UpToBlank(LStrip(s))

IsDigits(s) == \A i \in 1..Len(s) : \E d \in 0..9 : Char(s, i) = ToString(d)

DigitVal(c) == CHOOSE d \in 0..9 : c = ToString(d)

\* the number read from the digits i.. of s, continued from acc
RECURSIVE ParseNat(_, _, _)
ParseNat(s, i, acc) ==
    IF i > Len(s) THEN acc
    ELSE ParseNat(s, i + 1, acc * 10 + DigitVal(Char(s, i)))

DotPos(s) ==
    IF \E i \in 1..Len(s) : Char(s, i) = "."
    THEN CHOOSE i \in 1..Len(s) : Char(s, i) = "." /\ \A j \in 1..(i - 1) : Char(s, j) # "."
    ELSE 0

\* float(raw) succeeds on digits[.digits]; any other shape is the ValueError branch
IsFloat(tok) ==
    LET dot == DotPos(tok)
        ip == IF dot = 0 THEN tok ELSE SubSeq(tok, 1, dot - 1)
        fp == IF dot = 0 THEN "" ELSE SubSeq(tok, dot + 1, Len(tok))
    IN  IsDigits(ip \o fp) /\ Len(ip \o fp) > 0

TwoDigits(n) == IF n < 10 THEN "0" \o ToString(n) ELSE ToString(n)

\* the two f-string branches of format_price; the .2f branch is exact for the
\* prices of the modelled catalogs, which carry at most two decimals
FormatFloat(tok, sym) ==
    LET dot == DotPos(tok)
        ip == IF dot = 0 THEN tok ELSE SubSeq(tok, 1, dot - 1)
        fp == IF dot = 0 THEN "" ELSE SubSeq(tok, dot + 1, Len(tok))
        whole == ParseNat(ip, 1, 0)
        isInt == \A i \in 1..Len(fp) : Char(fp, i) = "0"
        padded == fp \o "000"
        cents == whole * 100 + ParseNat(SubSeq(padded, 1, 2), 1, 0)
                   + (IF DigitVal(Char(padded, 3)) >= 5 THEN 1 ELSE 0)
    IN  IF isInt THEN ToString(whole) \o sym
        ELSE ToString(cents \div 100) \o "." \o TwoDigits(cents % 100) \o sym

\* the currency code of the country configuration, EUR replaced by the euro sign
CurrencySymbol(currency) == IF currency = "EUR" THEN EuroSign ELSE currency

format_price(element, currency) ==
    IF ~element.present THEN ""
    ELSE LET raw_price_str == FirstToken(element.text)
         IN  IF IsFloat(raw_price_str)
             THEN FormatFloat(raw_price_str, CurrencySymbol(currency))
             ELSE raw_price_str

(***************************************************************************)
(* File names of the output directory.                                     *)
(***************************************************************************)
\* variant of the file name without the fingerprint
AdFileNameNoHash(product_id, data_hash) == "ad_" \o product_id \o ".jpg"

\* f"ad_{product_id}_{data_hash}.jpg"
AdFileName(product_id, data_hash) == "ad_" \o product_id \o "_" \o data_hash \o ".jpg"

\* fnmatch of a base name against the glob pattern ad_*.jpg
GlobAdJpg(name) == Len(name) >= 7 /\ StartsWith(name, "ad_") /\ EndsWith(name, ".jpg")

\* variant that builds the URL from the text of the id element as it is in the feed
ImageLinkRawId(product) ==
    GITHUB_PAGES_BASE_URL \o "/ad_" \o product.nodes.id.text \o "_" \o product.data_hash \o ".jpg"

\* f"{GITHUB_PAGES_BASE_URL}/ad_{id}_{data_hash}.jpg"
ImageLink(product) ==
    GITHUB_PAGES_BASE_URL \o "/ad_" \o product.id \o "_" \o product.data_hash \o ".jpg"

\* the file name that an image URL of a republished feed refers to
UrlFileName(url) ==
    IF StartsWith(url, GITHUB_PAGES_BASE_URL \o "/")
    THEN SubSeq(url, Len(GITHUB_PAGES_BASE_URL) + 2, Len(url))
    ELSE ""

(***************************************************************************)
(* The template asset: missing, a decodable image, a file that is not a    *)
(* decodable image, or a file that cannot be read.                         *)
(***************************************************************************)
TemplateKinds == {"missing", "image", "corrupt", "unreadable"}

get_template_file_hash(tpl) ==
    IF tpl.kind = "missing" THEN "notfound"
    ELSE IF tpl.kind = "unreadable" THEN "error"
    ELSE Sha1Hex8(tpl.content)

(***************************************************************************)
(* Section 1 of process_single_feed: the extraction and filtering loop.    *)
(***************************************************************************)
\* main image first, then the first two additional images that carry text
ImageUrls(item) ==
    LET main == IF item.main.present /\ item.main.text # ""
                THEN <<Strip(item.main.text)>> ELSE <<>>
        extra(i) == IF i <= Len(item.additional) /\ item.additional[i] # ""
                    THEN <<Strip(item.additional[i])>> ELSE <<>>
    IN  main \o extra(1) \o extra(2)

\* the item passes every `continue` of the loop
Kept(item) ==
    /\ item.id.present /\ item.id.text # ""
    /\ item.category_ok /\ item.lifestyle
    /\ (item.sale.present \/ item.price.present)
    /\ ImageUrls(item) # <<>>

\* variant of the data string without the template hash
DataHashNoTemplate(item, template_hash) ==
    LET raw_sale_price == IF item.sale.present THEN item.sale.text ELSE ""
        raw_price == IF item.price.present THEN item.price.text ELSE ""
    IN  Sha1Hex8(JoinPipe(<<Strip(item.id.text), raw_sale_price, raw_price,
                            StrList(ImageUrls(item))>>))

DataHash(item, template_hash) ==
    LET raw_sale_price == IF item.sale.present THEN item.sale.text ELSE ""
        raw_price == IF item.price.present THEN item.price.text ELSE ""
    IN  Sha1Hex8(JoinPipe(<<Strip(item.id.text), raw_sale_price, raw_price,
                            StrList(ImageUrls(item)), template_hash>>))

ProductOf(item, template_hash, currency) ==
    [id |-> Strip(item.id.text),
     price_state |-> IF item.sale.present THEN "sale" ELSE "normal",
     formatted_price |-> format_price(item.price, currency),
     formatted_sale_price |-> format_price(item.sale, currency),
     image_urls |-> Take(ImageUrls(item), 3),
     final_price_color |-> IF item.sale.present THEN SALE_PRICE_COLOR ELSE NORMAL_PRICE_COLOR,
     formatted_display_price |->
         format_price(IF item.sale.present THEN item.sale ELSE item.price, currency),
     data_hash |-> DataHash(item, template_hash),
     nodes |-> item]

\* variant whose fingerprint also hashes the running product count
RECURSIVE ExtractProductsSalted(_, _, _, _)
ExtractProductsSalted(items, template_hash, currency, acc) ==
    IF Len(items) = 0 \/ Len(acc) >= MAX_PRODUCTS_TO_GENERATE THEN acc
    ELSE ExtractProductsSalted(Tail(items), template_hash, currency,
             IF Kept(Head(items))
             THEN Append(acc, [ProductOf(Head(items), template_hash, currency) EXCEPT
                                 !.data_hash = Sha1Hex8(@ \o "|" \o ToString(Len(acc)))])
             ELSE acc)

\* products_for_feed after the loop over the item elements
RECURSIVE ExtractProducts(_, _, _, _)
ExtractProducts(items, template_hash, currency, acc) ==
    IF Len(items) = 0 \/ Len(acc) >= MAX_PRODUCTS_TO_GENERATE THEN acc
    ELSE ExtractProducts(Tail(items), template_hash, currency,
             IF Kept(Head(items))
             THEN Append(acc, ProductOf(Head(items), template_hash, currency))
             ELSE acc)

\* valid_ad_filenames after the loop
ValidNames(products) ==
    {AdFileName(products[i].id, products[i].data_hash) : i \in 1..Len(products)}

(***************************************************************************)
(* Paths in OUTPUT_DIR.                                                    *)
(***************************************************************************)
\* os.path.join(OUTPUT_DIR, name)
PathJoin(dir, name) == dir \o "/" \o name

\* the position of the last path separator of a path, 0 when it has none
LastSlash(path) ==
    LET slashes == {i \in 1..Len(path) : Char(path, i) = "/"}
    IN  IF slashes = {} THEN 0 ELSE CHOOSE i \in slashes : \A j \in slashes : j <= i

\* os.path.basename(path)
BaseName(path) == SubSeq(path, LastSlash(path) + 1, Len(path))

\* glob.glob(os.path.join(OUTPUT_DIR, "ad_*.jpg")) over the paths of a directory listing
GlobAds(paths) ==
    {p \in paths : StartsWith(p, OUTPUT_DIR \o "/")
                   /\ GlobAdJpg(SubSeq(p, Len(OUTPUT_DIR) + 2, Len(p)))
                   /\ BaseName(p) = SubSeq(p, Len(OUTPUT_DIR) + 2, Len(p))}

(***************************************************************************)
(* The canvas of one render and the content of a file.                     *)
(***************************************************************************)
NoCanvas == [base |-> "", slots |-> <<>>, text |-> "", color |-> ""]

EmptySlots == [i \in 1..NumSlots |-> ""]

Partial == [kind |-> "partial", canvas |-> NoCanvas]

Other == [kind |-> "other", canvas |-> NoCanvas]

Artifact(canvas) == [kind |-> "artifact", canvas |-> canvas]

\* variant that falls back to the blank canvas on every error of Image.open
LoadBaseAnyError(tpl) == IF tpl.kind = "image" THEN tpl.content ELSE "white"

\* Image.open(template_path) of lines 150-153: the base canvas, or "raise"
LoadBase(tpl) ==
    IF tpl.kind = "image" THEN tpl.content
    ELSE IF tpl.kind = "missing" THEN "white"
    ELSE "raise"

\* variant in which a failed fetch ends the slot loop
RECURSIVE PasteSlotsStopOnFailure(_, _, _, _)
PasteSlotsStopOnFailure(slots, image_urls, ok, i) ==
    IF i > NumSlots THEN slots
    ELSE IF i > Len(image_urls) THEN PasteSlotsStopOnFailure(slots, image_urls, ok, i + 1)
    ELSE IF ok[i]
         THEN PasteSlotsStopOnFailure([slots EXCEPT ![i] = image_urls[i]], image_urls, ok, i + 1)
    ELSE slots

\* the slot loop of lines 155-168: slot i is pasted when the request has an
\* i-th photo and its fetch and decode succeed (ok[i]); a failure is caught
\* and the loop goes on with the next slot
RECURSIVE PasteSlots(_, _, _, _)
PasteSlots(slots, image_urls, ok, i) ==
    IF i > NumSlots THEN slots
    ELSE IF i > Len(image_urls) THEN PasteSlots(slots, image_urls, ok, i + 1)
    ELSE IF ok[i] THEN PasteSlots([slots EXCEPT ![i] = image_urls[i]], image_urls, ok, i + 1)
    ELSE PasteSlots(slots, image_urls, ok, i + 1)

\* lines 170-193: the price text and its colour on the canvas
DrawPrice(canvas, price_text, price_color) ==
    [canvas EXCEPT !.text = price_text, !.color = price_color]

(***************************************************************************)
(* The modelled catalogs, template states and output directory.            *)
(***************************************************************************)
Config == [currency |-> "EUR", google_feed_required |-> TRUE]

ItemA == [id |-> Elem("P1"), category_ok |-> TRUE, lifestyle |-> TRUE,
          sale |-> NoElem, price |-> Elem("20.00 EUR"),
          main |-> Elem("u1"), additional |-> <<"u2">>]

ItemB == [id |-> Elem("P2"), category_ok |-> TRUE, lifestyle |-> TRUE,
          sale |-> Elem("15.50 EUR"), price |-> Elem("20.00 EUR"),
          main |-> Elem("u1"), additional |-> <<>>]

ItemC == [id |-> Elem(" P1"), category_ok |-> TRUE, lifestyle |-> TRUE,
          sale |-> Elem("15.50 EUR"), price |-> Elem("20.00 EUR"),
          main |-> Elem("u1"), additional |-> <<"u2">>]

ItemD == [id |-> NoElem, category_ok |-> TRUE, lifestyle |-> TRUE,
          sale |-> NoElem, price |-> Elem("20.00 EUR"),
          main |-> Elem("u1"), additional |-> <<>>]

\* an id with a path separator: the artifact path names a directory that does not exist
ItemE == [id |-> Elem("P3/x"), category_ok |-> TRUE, lifestyle |-> TRUE,
          sale |-> NoElem, price |-> Elem("19.9 EUR"),
          main |-> Elem("u1"), additional |-> <<>>]

Items == {ItemA, ItemB, ItemC, ItemD, ItemE}

\* a record without the main image element that carries an additional image
ItemF == [id |-> Elem("P4"), category_ok |-> TRUE, lifestyle |-> TRUE,
          sale |-> NoElem, price |-> Elem("20.00 EUR"),
          main |-> NoElem, additional |-> <<"u2">>]

\* a record without any image element
ItemG == [id |-> Elem("P5"), category_ok |-> TRUE, lifestyle |-> TRUE,
          sale |-> NoElem, price |-> Elem("20.00 EUR"),
          main |-> NoElem, additional |-> <<>>]

\* records with and without the id and the image elements
FieldItems == {ItemA, ItemD, ItemF, ItemG}

Catalogs == UNION {[1..n -> Items] : n \in 1..MaxItems}

Missing == [kind |-> "missing", content |-> ""]

Image(c) == [kind |-> "image", content |-> c]

Corrupt(c) == [kind |-> "corrupt", content |-> c]

Unreadable(c) == [kind |-> "unreadable", content |-> c]

TemplateStates == {Missing, Image("TA"), Image("TB"), Corrupt("XX"),
                   Unreadable("TA"), Unreadable("TB")}

\* the directory before the first run: a page, an orphaned artifact, a file that
\* only resembles an artifact name, and the artifact of ItemB under template TA
InitialDir ==
    LET cached == ProductOf(ItemB, get_template_file_hash(Image("TA")), Config.currency)
    IN  (PathJoin(OUTPUT_DIR, "index.html") :> Other)
        @@ (PathJoin(OUTPUT_DIR, "ad_P9_0badc0de.jpg")
              :> Artifact([base |-> "T0", slots |-> EmptySlots, text |-> "9(euro)",
                           color |-> NORMAL_PRICE_COLOR]))
        @@ (PathJoin(OUTPUT_DIR, "ad_P1_0badc0de.jpeg") :> Other)
        @@ (PathJoin(OUTPUT_DIR, AdFileName(cached.id, cached.data_hash))
              :> Artifact([base |-> "TA", slots |-> [EmptySlots EXCEPT ![1] = "u1"],
                           text |-> cached.formatted_display_price,
                           color |-> cached.final_price_color]))

(***************************************************************************)
(* State.                                                                  *)
(***************************************************************************)
VARIABLES
    pending,              \* process_all_feeds: the feeds of the countries still to process
    earlier,              \* what the countries processed earlier in the run republished
    catalog,              \* the items of the downloaded feed being processed
    template,             \* the file at LAYOUT_CONFIG["template_path"]
    files,                \* the files of OUTPUT_DIR: path -> content
    runsLeft,             \* runs of process_all_feeds still to start
    mainpc,               \* position of the main thread
    template_hash,        \* process_all_feeds: hash computed once per run
    products_for_feed,    \* process_single_feed: the kept products
    valid_ad_filenames,   \* process_single_feed: names of the valid artifacts
    tasks,                \* futures of the executor, in submission order
    processed_images,     \* futures consumed by the as_completed loop
    feeds,                \* image links of the republished feeds
    failures_reported,    \* futures whose exception the as_completed loop printed
    delete_errors,        \* paths whose os.remove raised in the last cleanup
    prev_run              \* template and products of the run before

vars == <<pending, earlier, catalog, template, files, runsLeft, mainpc, template_hash, products_for_feed,
          valid_ad_filenames, tasks, processed_images, feeds, failures_reported,
          delete_errors, prev_run>>

NoFeeds == [meta |-> <<>>, google |-> <<>>, tiktok |-> <<>>]

NoRun == [ran |-> FALSE, template |-> Missing, products |-> <<>>]

TaskIds == 1..Len(tasks)

Finished(t) == tasks[t].pc \in {"done", "failed"}

Running(t) == tasks[t].pc \in {"render", "save", "writing"}

InitCommon ==
    /\ files = InitialDir
    /\ mainpc = "idle"
    /\ template_hash = ""
    /\ products_for_feed = <<>>
    /\ valid_ad_filenames = {}
    /\ tasks = <<>>
    /\ processed_images = 0
    /\ feeds = NoFeeds
    /\ failures_reported = 0
    /\ delete_errors = {}
    /\ prev_run = NoRun
    /\ earlier = <<>>

Init ==
    /\ pending = <<>>
    /\ catalog \in Catalogs
    /\ template \in {Missing, Image("TA"), Corrupt("XX"), Unreadable("TA")}
    /\ runsLeft = 1
    /\ InitCommon

(***************************************************************************)
(* process_all_feeds and process_single_feed: the main thread.             *)
(***************************************************************************)
\* process_all_feeds, lines 563-584: the template hash is computed once
StartRun ==
    /\ mainpc = "idle"
    /\ runsLeft > 0
    /\ runsLeft' = runsLeft - 1
    /\ template_hash' = get_template_file_hash(template)
    /\ mainpc' = "extract"
    /\ products_for_feed' = <<>>
    /\ valid_ad_filenames' = {}
    /\ tasks' = <<>>
    /\ processed_images' = 0
    /\ failures_reported' = 0
    /\ UNCHANGED <<pending, earlier, catalog, template, files, feeds, delete_errors, prev_run>>

\* the end of process_single_feed
FinishRun(products) ==
    /\ mainpc' = "idle"
    /\ prev_run' = [ran |-> TRUE, template |-> template, products |-> products]

\* section 1, lines 396-511; with no kept product the run ends at line 558
Extract ==
    /\ mainpc = "extract"
    /\ products_for_feed' = ExtractProducts(catalog, template_hash, Config.currency, <<>>)
    /\ valid_ad_filenames' = ValidNames(products_for_feed')
    /\ IF products_for_feed' # <<>>
       THEN mainpc' = "submit" /\ UNCHANGED prev_run
       ELSE FinishRun(<<>>)
    /\ UNCHANGED <<pending, earlier, catalog, template, files, runsLeft, template_hash, tasks,
                   processed_images, feeds, failures_reported, delete_errors>>

NewTask(product) ==
    [product |-> product, pc |-> "queued", output_path |-> "", canvas |-> NoCanvas,
     fetch_failed |-> {}, result |-> "", collected |-> FALSE]

\* lines 522-530: executor.submit of the next product
Submit ==
    /\ mainpc = "submit"
    /\ LET k == Len(tasks) + 1
       IN  /\ tasks' = Append(tasks, NewTask(products_for_feed[k]))
           /\ mainpc' = IF k = Len(products_for_feed) THEN "collect" ELSE "submit"
    /\ UNCHANGED <<pending, earlier, catalog, template, files, runsLeft, template_hash, products_for_feed,
                   valid_ad_filenames, processed_images, feeds, failures_reported,
                   delete_errors, prev_run>>

\* variant without the try/except around future.result(): the exception of a
\* failed render leaves process_single_feed
CollectNoCatch(t) ==
    /\ mainpc = "collect"
    /\ Finished(t)
    /\ ~tasks[t].collected
    /\ tasks' = [tasks EXCEPT ![t].collected = TRUE]
    /\ processed_images' = processed_images + 1
    /\ mainpc' = IF tasks[t].pc = "failed" THEN "idle" ELSE mainpc
    /\ UNCHANGED <<pending, earlier, catalog, template, files, runsLeft, template_hash, products_for_feed,
                   valid_ad_filenames, feeds, failures_reported, delete_errors, prev_run>>

\* lines 533-540: as_completed yields a finished future; an exception of the
\* render is caught and printed
Collect(t) ==
    /\ mainpc = "collect"
    /\ Finished(t)
    /\ ~tasks[t].collected
    /\ tasks' = [tasks EXCEPT ![t].collected = TRUE]
    /\ processed_images' = processed_images + 1
    /\ failures_reported' = failures_reported + (IF tasks[t].pc = "failed" THEN 1 ELSE 0)
    /\ UNCHANGED <<pending, earlier, catalog, template, files, runsLeft, mainpc, template_hash,
                   products_for_feed, valid_ad_filenames, feeds, delete_errors, prev_run>>

\* variant that neither drains as_completed nor waits in shutdown
ExecutorExitNoWait ==
    /\ mainpc = "collect"
    /\ mainpc' = "feeds"
    /\ UNCHANGED <<pending, earlier, catalog, template, files, runsLeft, template_hash, products_for_feed,
                   valid_ad_filenames, tasks, processed_images, feeds, failures_reported,
                   delete_errors, prev_run>>

\* line 520: leaving the with block is executor.shutdown(wait=True)
ExecutorExit ==
    /\ mainpc = "collect"
    /\ processed_images = Len(tasks)
    /\ \A t \in TaskIds : Finished(t)
    /\ mainpc' = "feeds"
    /\ UNCHANGED <<pending, earlier, catalog, template, files, runsLeft, template_hash, products_for_feed,
                   valid_ad_filenames, tasks, processed_images, feeds, failures_reported,
                   delete_errors, prev_run>>

ImageLinks(products) == [i \in 1..Len(products) |-> ImageLink(products[i])]

\* lines 547-552: the republished feeds
GenerateFeeds ==
    /\ mainpc = "feeds"
    /\ feeds' = [meta |-> ImageLinks(products_for_feed),
                 google |-> IF Config.google_feed_required
                            THEN ImageLinks(products_for_feed) ELSE feeds.google,
                 tiktok |-> ImageLinks(products_for_feed)]
    /\ mainpc' = "cleanup"
    /\ UNCHANGED <<pending, earlier, catalog, template, files, runsLeft, template_hash, products_for_feed,
                   valid_ad_filenames, tasks, processed_images, failures_reported,
                   delete_errors, prev_run>>

\* variant without the glob pattern: every file of the directory is a candidate
OrphansAnyFile(dir, valid_filenames_set) ==
    {file_path \in DOMAIN dir : BaseName(file_path) \notin valid_filenames_set}

\* lines 207-220: the directory after the loop over the glob result; errs are
\* the paths whose os.remove raises
Orphans(dir, valid_filenames_set) ==
    {file_path \in GlobAds(DOMAIN dir) : BaseName(file_path) \notin valid_filenames_set}

cleanup_orphaned_ads(dir, valid_filenames_set, errs) ==
    [file_path \in DOMAIN dir \ (Orphans(dir, valid_filenames_set) \ errs) |-> dir[file_path]]

\* line 555
Cleanup ==
    /\ mainpc = "cleanup"
    /\ \E errs \in SUBSET Orphans(files, valid_ad_filenames) :
          /\ files' = cleanup_orphaned_ads(files, valid_ad_filenames, errs)
          /\ delete_errors' = errs
    /\ FinishRun(products_for_feed)
    /\ UNCHANGED <<pending, earlier, catalog, template, runsLeft, template_hash, products_for_feed,
                   valid_ad_filenames, tasks, processed_images, feeds, failures_reported>>

(***************************************************************************)
(* create_ballzy_ad: one render task on a worker of the pool.              *)
(***************************************************************************)
OutputPath(product) == PathJoin(OUTPUT_DIR, AdFileName(product.id, product.data_hash))

\* variant without the cache check of lines 147-148
StartTaskNoCache(t) ==
    /\ tasks[t].pc = "queued"
    /\ \A u \in 1..(t - 1) : tasks[u].pc # "queued"
    /\ Cardinality({u \in TaskIds : Running(u)}) < MaxWorkers
    /\ tasks' = [tasks EXCEPT ![t].pc = "render",
                              ![t].output_path = OutputPath(tasks[t].product)]
    /\ UNCHANGED <<pending, earlier, catalog, template, files, runsLeft, mainpc, template_hash,
                   products_for_feed, valid_ad_filenames, processed_images, feeds,
                   failures_reported, delete_errors, prev_run>>

\* a worker takes the oldest queued task; lines 142-148: the cache check
StartTask(t) ==
    /\ tasks[t].pc = "queued"
    /\ \A u \in 1..(t - 1) : tasks[u].pc # "queued"
    /\ Cardinality({u \in TaskIds : Running(u)}) < MaxWorkers
    /\ LET output_path == OutputPath(tasks[t].product)
       IN  tasks' = IF output_path \in DOMAIN files
                    THEN [tasks EXCEPT ![t].pc = "done", ![t].output_path = output_path,
                                       ![t].result = output_path]
                    ELSE [tasks EXCEPT ![t].pc = "render", ![t].output_path = output_path]
    /\ UNCHANGED <<pending, earlier, catalog, template, files, runsLeft, mainpc, template_hash,
                   products_for_feed, valid_ad_filenames, processed_images, feeds,
                   failures_reported, delete_errors, prev_run>>

\* lines 150-193: template, photo slots, price
Render(t) ==
    /\ tasks[t].pc = "render"
    /\ LET base == LoadBase(template)
           product == tasks[t].product
       IN  IF base = "raise"
           THEN tasks' = [tasks EXCEPT ![t].pc = "failed"]
           ELSE \E ok \in [1..Len(product.image_urls) -> BOOLEAN] :
                   tasks' = [tasks EXCEPT
                       ![t].pc = "save",
                       ![t].fetch_failed = {i \in DOMAIN ok : ~ok[i]},
                       ![t].canvas = DrawPrice(
                           [base |-> base,
                            slots |-> PasteSlots(EmptySlots, product.image_urls, ok, 1),
                            text |-> "", color |-> ""],
                           product.formatted_display_price, product.final_price_color)]
    /\ UNCHANGED <<pending, earlier, catalog, template, files, runsLeft, mainpc, template_hash,
                   products_for_feed, valid_ad_filenames, processed_images, feeds,
                   failures_reported, delete_errors, prev_run>>

\* the directory part of a path
DirName(path) == SubSeq(path, 1, LastSlash(path) - 1)

\* line 196, first half: save opens output_path for writing, which creates or
\* truncates the file; the open raises when the directory of the path does not
\* exist (OUTPUT_DIR is the only directory there is)
SaveOpen(t) ==
    /\ tasks[t].pc = "save"
    /\ IF DirName(tasks[t].output_path) = OUTPUT_DIR
       THEN /\ files' = (tasks[t].output_path :> Partial) @@ files
            /\ tasks' = [tasks EXCEPT ![t].pc = "writing"]
       ELSE /\ files' = files
            /\ tasks' = [tasks EXCEPT ![t].pc = "failed"]
    /\ UNCHANGED <<pending, earlier, catalog, template, runsLeft, mainpc, template_hash, products_for_feed,
                   valid_ad_filenames, processed_images, feeds, failures_reported,
                   delete_errors, prev_run>>

\* lines 196-197, second half: the encoded image is written and the path returned
SaveWrite(t) ==
    /\ tasks[t].pc = "writing"
    /\ files' = (tasks[t].output_path :> Artifact(tasks[t].canvas)) @@ files
    /\ tasks' = [tasks EXCEPT ![t].pc = "done", ![t].result = tasks[t].output_path]
    /\ UNCHANGED <<pending, earlier, catalog, template, runsLeft, mainpc, template_hash, products_for_feed,
                   valid_ad_filenames, processed_images, feeds, failures_reported,
                   delete_errors, prev_run>>

Next ==
    \/ StartRun
    \/ Extract
    \/ Submit
    \/ \E t \in TaskIds : StartTask(t)
    \/ \E t \in TaskIds : Render(t)
    \/ \E t \in TaskIds : SaveOpen(t)
    \/ \E t \in TaskIds : SaveWrite(t)
    \/ \E t \in TaskIds : Collect(t)
    \/ ExecutorExit
    \/ GenerateFeeds
    \/ Cleanup

Spec == Init /\ [][Next]_vars

\* the steps of a run once the products are extracted: the main thread in its
\* loops over the futures, the feed writers and the cleanup, and the pool threads
RunSteps ==
    \/ Submit
    \/ \E t \in TaskIds : StartTask(t)
    \/ \E t \in TaskIds : Render(t)
    \/ \E t \in TaskIds : SaveOpen(t)
    \/ \E t \in TaskIds : SaveWrite(t)
    \/ \E t \in TaskIds : Collect(t)
    \/ ExecutorExit
    \/ GenerateFeeds
    \/ Cleanup

\* the threads of a started run keep running until the run returns
SpecFair == Spec /\ WF_vars(RunSteps)

(***************************************************************************)
(* The process is killed during a run: every unfinished render stops where *)
(* it is and nothing of the run is executed any more.                      *)
(***************************************************************************)
Abort ==
    /\ mainpc # "idle"
    /\ mainpc' = "idle"
    /\ tasks' = [t \in TaskIds |->
                    IF Finished(t) THEN tasks[t] ELSE [tasks[t] EXCEPT !.pc = "aborted"]]
    /\ UNCHANGED <<pending, earlier, catalog, template, files, runsLeft, template_hash, products_for_feed,
                   valid_ad_filenames, processed_images, feeds, failures_reported,
                   delete_errors, prev_run>>

NextAbort == Next \/ Abort

SpecAbort == Init /\ [][NextAbort]_vars

(***************************************************************************)
(* Several runs of the program over the same one-item feed; between two    *)
(* runs the template asset may be replaced.                                *)
(***************************************************************************)
ChangeTemplate ==
    /\ mainpc = "idle"
    /\ prev_run.ran
    /\ runsLeft > 0
    /\ template' \in TemplateStates \ {template}
    /\ UNCHANGED <<pending, earlier, catalog, files, runsLeft, mainpc, template_hash, products_for_feed,
                   valid_ad_filenames, tasks, processed_images, feeds, failures_reported,
                   delete_errors, prev_run>>

InitTpl ==
    /\ pending = <<>>
    /\ catalog \in [1..1 -> Items]
    /\ template \in TemplateStates
    /\ runsLeft = MaxRuns
    /\ InitCommon

NextTpl == Next \/ ChangeTemplate

SpecTpl == InitTpl /\ [][NextTpl]_vars


(***************************************************************************)
(* One run over a feed whose records may lack the id or the image elements. *)
(***************************************************************************)
InitFields ==
    /\ pending = <<>>
    /\ catalog \in UNION {[1..n -> FieldItems] : n \in 1..MaxItems}
    /\ template = Image("TA")
    /\ runsLeft = 1
    /\ InitCommon

SpecFields == InitFields /\ [][Next]_vars

(***************************************************************************)
(* One run of process_all_feeds over the feeds of several countries, which  *)
(* all render into OUTPUT_DIR.                                              *)
(***************************************************************************)
\* the downloaded feeds of the countries: one record each
CountryFeeds == [1..1 -> {ItemA, ItemB, ItemD}]

\* the artifacts in dir that the image links of a republished feed refer to
ReferencedArtifacts(dir, links) ==
    {p \in DOMAIN dir : /\ dir[p].kind = "artifact"
                        /\ \E k \in 1..Len(links) : p = PathJoin(OUTPUT_DIR, UrlFileName(links[k]))}

\* what the country just processed leaves behind: its valid set, the links of
\* its feeds (none when no record was kept) and the artifacts they refer to
Republication ==
    LET links == IF products_for_feed # <<>> THEN feeds.meta ELSE <<>>
    IN  [valid |-> valid_ad_filenames, links |-> links,
         artifacts |-> ReferencedArtifacts(files, links)]

\* lines 580-583 and 372-376: the loop of process_all_feeds calls
\* process_single_feed for the next country with the same template hash
NextCountry ==
    /\ mainpc = "idle"
    /\ prev_run.ran
    /\ pending # <<>>
    /\ earlier' = Append(earlier, Republication)
    /\ catalog' = Head(pending)
    /\ pending' = Tail(pending)
    /\ mainpc' = "extract"
    /\ products_for_feed' = <<>>
    /\ valid_ad_filenames' = {}
    /\ tasks' = <<>>
    /\ processed_images' = 0
    /\ failures_reported' = 0
    /\ UNCHANGED <<template, files, runsLeft, template_hash, feeds, delete_errors, prev_run>>

InitCountries ==
    /\ catalog \in CountryFeeds
    /\ pending \in UNION {[1..n -> CountryFeeds] : n \in 1..(MaxFeeds - 1)}
    /\ template = Image("TA")
    /\ runsLeft = 1
    /\ InitCommon

NextCountries == Next \/ NextCountry

SpecCountries == InitCountries /\ [][NextCountries]_vars

(***************************************************************************)
(* Properties.                                                             *)
(***************************************************************************)
\* the task returned at line 148 without rendering
Skipped(t) == tasks[t].pc = "done" /\ tasks[t].canvas = NoCanvas

\* the task ran to line 197
Wrote(t) == tasks[t].pc = "done" /\ tasks[t].canvas # NoCanvas

\* the task has a canvas: it passed the cache check and the template load
Rendered(t) == tasks[t].canvas # NoCanvas

OrphanPath == PathJoin(OUTPUT_DIR, "ad_P9_0badc0de.jpg")

\* C1: a call of create_ballzy_ad renders exactly when no file named
\* ad_{product_id}_{data_hash}.jpg exists at the call; when the file exists the
\* call fetches, composites and writes nothing, leaves the directory as it is
\* and returns the path; so a call that follows a completed call for the same
\* (product_id, data_hash) does not composite again.
C1_CacheSkip ==
    [][\A t \in TaskIds :
          (t \in DOMAIN tasks' /\ tasks[t].pc = "queued" /\ tasks'[t].pc # "queued") =>
             LET path == PathJoin(OUTPUT_DIR, AdFileName(tasks[t].product.id,
                                                         tasks[t].product.data_hash))
             IN  /\ files' = files
                 /\ IF path \in DOMAIN files
                    THEN /\ tasks'[t].pc = "done"
                         /\ tasks'[t].result = path
                         /\ tasks'[t].canvas = NoCanvas
                         /\ tasks'[t].fetch_failed = {}
                    ELSE tasks'[t].pc = "render"
                 /\ \A u \in TaskIds \ {t} :
                       (Wrote(u) /\ tasks[u].product.id = tasks[t].product.id
                                 /\ tasks[u].product.data_hash = tasks[t].product.data_hash)
                       => (tasks'[t].pc = "done" /\ tasks'[t].canvas = NoCanvas)]_vars

C1_Witness ==
    \E t1, t2 \in TaskIds :
        /\ t1 # t2
        /\ tasks[t1].output_path = tasks[t2].output_path
        /\ Wrote(t1)
        /\ Skipped(t2)
        /\ tasks[t2].result = tasks[t2].output_path
        /\ files[tasks[t1].output_path] = Artifact(tasks[t1].canvas)

\* C2: a cleanup without deletion error leaves exactly the files of the
\* directory that do not match ad_*.jpg or are named in the valid set, each with
\* its content; with or without deletion errors no file that is valid or does
\* not match the pattern is removed.
C2_CleanupExact ==
    [][(mainpc = "cleanup" /\ mainpc' # "cleanup") =>
          LET IsAd(p) == LET n == BaseName(p)
                         IN  /\ Len(n) >= 7
                             /\ SubSeq(n, 1, 3) = "ad_"
                             /\ SubSeq(n, Len(n) - 3, Len(n)) = ".jpg"
              gone == {p \in DOMAIN files : IsAd(p) /\ BaseName(p) \notin valid_ad_filenames}
          IN  /\ \A p \in DOMAIN files \ gone : p \in DOMAIN files' /\ files'[p] = files[p]
              /\ DOMAIN files' \subseteq DOMAIN files
              /\ delete_errors' = {} => DOMAIN files' = DOMAIN files \ gone]_vars

C2_Witness ==
    /\ mainpc = "idle"
    /\ prev_run.ran
    /\ tasks # <<>>
    /\ delete_errors = {}
    /\ OrphanPath \notin DOMAIN files
    /\ PathJoin(OUTPUT_DIR, "index.html") \in DOMAIN files
    /\ PathJoin(OUTPUT_DIR, "ad_P1_0badc0de.jpeg") \in DOMAIN files
    /\ \E n \in valid_ad_filenames :
          /\ PathJoin(OUTPUT_DIR, n) \in DOMAIN files
          /\ files[PathJoin(OUTPUT_DIR, n)].kind = "artifact"

\* C3: the main thread is at the cleanup, and a file disappears from the
\* directory, only when every product has been submitted and every submitted
\* render has returned or raised.
C3_CleanupAfterJoin ==
    /\ [](mainpc = "cleanup" =>
             /\ Len(tasks) = Len(products_for_feed)
             /\ \A t \in TaskIds : tasks[t].pc \in {"done", "failed"})
    /\ [][(\E p \in DOMAIN files : p \notin DOMAIN files') =>
             /\ Len(tasks) = Len(products_for_feed)
             /\ \A t \in TaskIds : tasks[t].pc \in {"done", "failed"}]_vars

C3_Witness ==
    /\ mainpc = "idle"
    /\ prev_run.ran
    /\ OrphanPath \notin DOMAIN files
    /\ Len(tasks) >= 2
    /\ \E t \in TaskIds : tasks[t].pc = "failed"
    /\ \E t \in TaskIds : Wrote(t)

\* C4 as claimed: two renders of the same record have the same file name and
\* the same rendered content, whatever happens during each render.
C4_SameContentAlways ==
    \A t1, t2 \in TaskIds :
        (tasks[t1].product.nodes = tasks[t2].product.nodes /\ Rendered(t1) /\ Rendered(t2))
        => /\ tasks[t1].output_path = tasks[t2].output_path
           /\ tasks[t1].canvas = tasks[t2].canvas

\* C4 amended: two renders of the same record under the same template hash have
\* the same fingerprint and file name; their rendered content is the same when
\* both read the same template file and the same slots failed to fetch.
C4_Determinism ==
    \A t1, t2 \in TaskIds :
        tasks[t1].product.nodes = tasks[t2].product.nodes
        => /\ tasks[t1].product.data_hash = tasks[t2].product.data_hash
           /\ OutputPath(tasks[t1].product) = OutputPath(tasks[t2].product)
           /\ (/\ Rendered(t1) /\ Rendered(t2)
               /\ tasks[t1].canvas.base = tasks[t2].canvas.base
               /\ tasks[t1].fetch_failed = tasks[t2].fetch_failed)
              => tasks[t1].canvas = tasks[t2].canvas

C4_Witness ==
    \E t1, t2 \in TaskIds :
        /\ t1 # t2
        /\ tasks[t1].product.nodes = tasks[t2].product.nodes
        /\ Rendered(t1) /\ Rendered(t2)
        /\ tasks[t1].fetch_failed = {2}
        /\ tasks[t2].fetch_failed = {2}
        /\ tasks[t1].canvas = tasks[t2].canvas
        /\ tasks[t1].canvas.slots[1] = "u1"

\* C5 as claimed: no two tasks of a run are between the cache check and the end
\* of the write for the same path at the same time, and no path is written by
\* two tasks of the run.
C5_NoSharedFile ==
    \A t1, t2 \in TaskIds :
        (t1 # t2 /\ tasks[t1].output_path = tasks[t2].output_path)
        => /\ ~(Running(t1) /\ Running(t2))
           /\ ~(Wrote(t1) /\ Wrote(t2))

\* C5 amended: two tasks that render for, or have written, the same path have
\* the same product id and the same fingerprint.
C5_SharedOnlyIfSameKey ==
    \A t1, t2 \in TaskIds :
        (/\ t1 # t2
         /\ Running(t1) \/ Wrote(t1)
         /\ Running(t2) \/ Wrote(t2)
         /\ tasks[t1].output_path = tasks[t2].output_path)
        => /\ tasks[t1].product.id = tasks[t2].product.id
           /\ tasks[t1].product.data_hash = tasks[t2].product.data_hash

C5_Witness ==
    \E t1, t2 \in TaskIds :
        /\ t1 # t2
        /\ Running(t1) /\ Running(t2)
        /\ tasks[t1].product.id = tasks[t2].product.id
        /\ tasks[t1].output_path # tasks[t2].output_path

\* a run after another run of the same feed has extracted its products
InLaterRun == prev_run.ran /\ mainpc \in {"submit", "collect", "feeds", "cleanup"}

ContentChanged == prev_run.template.content # template.content

PrevPaths == {OutputPath(prev_run.products[j]) : j \in 1..Len(prev_run.products)}

\* C6 as claimed: in a run started after the content of the template changed,
\* every product has another fingerprint than in the run before and no product
\* is skipped by the cache check.
C6_AlwaysFresh ==
    (InLaterRun /\ ContentChanged)
    => /\ \A i \in 1..Len(products_for_feed) :
             products_for_feed[i].data_hash # prev_run.products[i].data_hash
       /\ \A t \in TaskIds : ~Skipped(t)

\* C6 amended: unless the template could not be read for hashing in both runs,
\* every product has another fingerprint than in the run before, and a task
\* that is skipped by the cache check is skipped on a path that the run before
\* did not name and on an artifact that was not rendered on the old template.
C6_FreshUnlessUnhashed ==
    (/\ InLaterRun
     /\ ContentChanged
     /\ ~(prev_run.template.kind = "unreadable" /\ template.kind = "unreadable"))
    => /\ \A i \in 1..Len(products_for_feed) :
             /\ products_for_feed[i].data_hash # prev_run.products[i].data_hash
             /\ OutputPath(products_for_feed[i]) # OutputPath(prev_run.products[i])
       /\ \A t \in TaskIds :
             Skipped(t) => /\ tasks[t].output_path \notin PrevPaths
                           /\ files[tasks[t].output_path].canvas.base
                                 # LoadBase(prev_run.template)

C6_Witness ==
    /\ InLaterRun
    /\ ContentChanged
    /\ prev_run.template.kind = "image"
    /\ template.kind = "image"
    /\ PrevPaths # {}
    /\ \E t \in TaskIds : Wrote(t) /\ tasks[t].output_path \notin PrevPaths

\* C7: a render in which the fetch of some slot fails goes on to the save: the
\* failed slots stay unfilled, every other slot that has a photo is filled, the
\* price is drawn; the save of a path in the output directory writes the canvas
\* and returns the path; such a render never ends as failed.
C7_FetchFailureTolerated ==
    /\ [][\A t \in TaskIds :
             (/\ t \in DOMAIN tasks'
              /\ tasks[t].pc = "render"
              /\ tasks'[t].pc # "render"
              /\ tasks'[t].fetch_failed # {})
             => /\ tasks'[t].pc = "save"
                /\ \A i \in 1..NumSlots :
                      tasks'[t].canvas.slots[i] =
                         IF i <= Len(tasks[t].product.image_urls)
                            /\ i \notin tasks'[t].fetch_failed
                         THEN tasks[t].product.image_urls[i] ELSE ""
                /\ tasks'[t].canvas.text = tasks[t].product.formatted_display_price
                /\ tasks'[t].canvas.color = tasks[t].product.final_price_color]_vars
    /\ [][\A t \in TaskIds :
             (t \in DOMAIN tasks' /\ tasks[t].pc = "writing" /\ tasks'[t].pc # "writing")
             => /\ tasks'[t].pc = "done"
                /\ tasks'[t].result = tasks[t].output_path
                /\ files'[tasks[t].output_path] = Artifact(tasks[t].canvas)]_vars
    /\ [](\A t \in TaskIds :
             (tasks[t].fetch_failed # {} /\ DirName(tasks[t].output_path) = OUTPUT_DIR)
             => tasks[t].pc \in {"save", "writing", "done"})

C7_Witness ==
    \E t \in TaskIds :
        /\ Wrote(t)
        /\ tasks[t].fetch_failed = {1}
        /\ tasks[t].canvas.slots[1] = ""
        /\ tasks[t].canvas.slots[2] = "u2"
        /\ tasks[t].canvas.text = "20(euro)"
        /\ tasks[t].result = tasks[t].output_path
        /\ files[tasks[t].output_path] = Artifact(tasks[t].canvas)

C9_BatchContinues ==
    /\ [](\A k \in TaskIds :
             k <= Len(products_for_feed) /\ tasks[k].product = products_for_feed[k])
    /\ [](mainpc \in {"collect", "feeds", "cleanup"} => Len(tasks) = Len(products_for_feed))
    /\ [][\A t \in TaskIds :
             (t \in DOMAIN tasks' /\ tasks[t].pc # "failed" /\ tasks'[t].pc = "failed")
             => /\ mainpc' = mainpc
                /\ \A u \in TaskIds \ {t} : tasks'[u] = tasks[u]]_vars
    /\ (\E t \in TaskIds : tasks[t].pc = "failed")
          ~> (/\ mainpc = "idle"
              /\ prev_run.ran
              /\ Len(tasks) = Len(products_for_feed)
              /\ \A t \in TaskIds : Finished(t) /\ tasks[t].collected
              /\ feeds.meta = ImageLinks(products_for_feed)
              /\ Orphans(files, valid_ad_filenames) \subseteq delete_errors)

C9_Witness ==
    /\ mainpc = "idle"
    /\ prev_run.ran
    /\ Len(tasks) = Len(products_for_feed)
    /\ failures_reported = 1
    /\ \E t1, t2 \in TaskIds :
          /\ tasks[t1].pc = "failed"
          /\ Wrote(t2)
          /\ tasks[t2].output_path \in DOMAIN files
    /\ feeds.tiktok = ImageLinks(products_for_feed)
    /\ OrphanPath \notin DOMAIN files

\* C10: a file at the path of a render that has failed or was interrupted is
\* never a half-written file.
C10_NoPartialArtifact ==
    \A t \in TaskIds :
        (tasks[t].pc \in {"failed", "aborted"} /\ tasks[t].output_path \in DOMAIN files)
        => files[tasks[t].output_path].kind # "partial"

\* the feeds of the run are written: lines 547-552 are passed
Republished == mainpc = "cleanup" \/ (mainpc = "idle" /\ prev_run.ran /\ products_for_feed # <<>>)

\* the three feeds that the country configuration asks for
FeedsOfRun == {feeds.meta, feeds.tiktok} \cup (IF Config.google_feed_required THEN {feeds.google} ELSE {})

\* C11: for every kept product the name in the path the compositor uses, the
\* name in the valid set and the name in the image URL of every republished
\* feed are the one string ad_{product_id}_{data_hash}.jpg, which matches the
\* pattern ad_*.jpg; a file the compositor wrote is found by the enumeration of
\* the reconciler under a valid name; and the valid set is the set of the names
\* the republished feeds refer to.
C11_OneFileName ==
    /\ mainpc \notin {"idle", "extract"} \/ Republished =>
          /\ valid_ad_filenames =
                {"ad_" \o products_for_feed[k].id \o "_" \o products_for_feed[k].data_hash \o ".jpg" :
                    k \in 1..Len(products_for_feed)}
          /\ \A n \in valid_ad_filenames : GlobAdJpg(n)
    /\ \A t \in TaskIds :
          /\ tasks[t].output_path # "" =>
                /\ StartsWith(tasks[t].output_path, OUTPUT_DIR \o "/")
                /\ SubSeq(tasks[t].output_path, Len(OUTPUT_DIR) + 2, Len(tasks[t].output_path))
                      \in valid_ad_filenames
                /\ SubSeq(tasks[t].output_path, Len(OUTPUT_DIR) + 2, Len(tasks[t].output_path))
                      = "ad_" \o products_for_feed[t].id \o "_" \o products_for_feed[t].data_hash \o ".jpg"
          /\ Wrote(t) /\ tasks[t].output_path \in DOMAIN files =>
                /\ GlobAds({tasks[t].output_path}) = {tasks[t].output_path}
                /\ BaseName(tasks[t].output_path) \in valid_ad_filenames
    /\ Republished =>
          \A f \in FeedsOfRun :
              /\ Len(f) = Len(products_for_feed)
              /\ \A k \in 1..Len(f) :
                    UrlFileName(f[k]) = "ad_" \o products_for_feed[k].id \o "_"
                                          \o products_for_feed[k].data_hash \o ".jpg"
              /\ {UrlFileName(f[k]) : k \in 1..Len(f)} = valid_ad_filenames

\* a finished run that kept a record whose id element carries blanks around the
\* id, wrote its artifact and republished the three feeds
C11_Witness ==
    /\ mainpc = "idle"
    /\ prev_run.ran
    /\ Len(feeds.meta) >= 1 /\ Len(feeds.google) >= 1 /\ Len(feeds.tiktok) >= 1
    /\ \E t \in TaskIds :
          /\ Wrote(t)
          /\ tasks[t].product.nodes.id.text # tasks[t].product.id
          /\ tasks[t].output_path \in DOMAIN files
          /\ BaseName(tasks[t].output_path) \in valid_ad_filenames
          /\ UrlFileName(feeds.meta[t]) = BaseName(tasks[t].output_path)

\* the record has no id element (or one without text)
LacksId(item) == ~(item.id.present /\ item.id.text # "")

\* the record has no main image element (or one without text)
LacksMainImage(item) == ~(item.main.present /\ item.main.text # "")

\* C12: a record without the id or without the main image is in no render
\* request, has no entry in the valid set and no record in a republished feed,
\* whatever additional images it carries; the records after it are processed.
C12_MandatoryFields ==
    /\ \A k \in 1..Len(products_for_feed) :
          ~LacksId(products_for_feed[k].nodes) /\ ~LacksMainImage(products_for_feed[k].nodes)
    /\ \A t \in TaskIds :
          ~LacksId(tasks[t].product.nodes) /\ ~LacksMainImage(tasks[t].product.nodes)
    /\ \A i \in 1..Len(catalog) :
          (~LacksId(catalog[i]) /\ LacksMainImage(catalog[i])) =>
              LET name == "ad_" \o Strip(catalog[i].id.text) \o "_"
                            \o DataHash(catalog[i], template_hash) \o ".jpg"
              IN  /\ name \notin valid_ad_filenames
                  /\ \A f \in FeedsOfRun : \A k \in 1..Len(f) : UrlFileName(f[k]) # name
    /\ mainpc \in {"submit", "collect", "feeds", "cleanup"} =>
          \A i \in 1..Len(catalog) :
              (~LacksId(catalog[i]) /\ ~LacksMainImage(catalog[i])) =>
                  \E k \in 1..Len(products_for_feed) : products_for_feed[k].nodes = catalog[i]

\* C13: in a run over the feeds of several countries the cleanup of one country
\* deletes no artifact of the valid set of a country processed earlier in the
\* run: every artifact that an earlier republished feed refers to and that
\* existed when that country was finished still exists.
C13_EarlierArtifactsKept ==
    \A i \in 1..Len(earlier) : earlier[i].artifacts \subseteq DOMAIN files

=============================================================================
